---- MODULE Spec2Model ----
(***************************************************************************)
(* Draft-trail server: the JSON file store (config/dataStore.js), the      *)
(* Express routes of routes/draftTrails.js in their registration order and *)
(* the bearer-token middleware (middleware/auth.js).                       *)
(*                                                                         *)
(* Every handler is synchronous (fs.readFileSync / fs.writeFileSync), so   *)
(* the server takes one request at a time and serves it in one atomic      *)
(* step; req and res hold the request being served and its response until  *)
(* the response has been sent.  Time is in milliseconds and a handler sees  *)
(* one value of Date.now().  Request bodies arrive through                 *)
(* express.json(), so stored values are JSON values and the                *)
(* JSON.stringify / JSON.parse pair of the store returns them unchanged.   *)
(*                                                                         *)
(* file     content of data/draftTrails.json (an array of records)         *)
(* now      Date.now(); ticks counts the clock steps taken                 *)
(* req, res the request being served and its response                      *)
(* fault    the condition of the data file: "none", "read" (readFileSync   *)
(*          or JSON.parse throws) or "write" (writeFileSync throws)        *)
(* inflight requests that have arrived and wait for the event loop         *)
(* served   the last requests the event loop has run, with their responses *)
(* tok      the last call of a token function and what it returned         *)
(* db       the rows of the MySQL tables users and draft_trails            *)
(* lambda   the last Lambda invocation and its response                    *)
(*                                                                         *)
(* Spec serves requests on a sound file; SpecIO adds file faults;          *)
(* SpecConc has several requests in flight at once; SpecToken applies the  *)
(* token functions of middleware/auth.js to tokens of every shape; SpecDb  *)
(* runs the Lambda handlers of the relational variant.                     *)
(***************************************************************************)
EXTENDS Integers, Sequences, FiniteSets, TLC

VARIABLES file, now, ticks, req, res, fault, inflight, served, tok, db,
          lambda

vars ==
  <<file, now, ticks, req, res, fault, inflight, served, tok, db, lambda>>

----------------------------------------------------------------------------
(* Bounds of the model *)

MaxTicks == 2
MaxInFlight == 2

(* Program constants *)

DAY == 86400000
TTL == 7 * DAY
T0 == 5000

TickSteps == {1, TTL}

Codes == {"REF-1", "my-drafts"}
Payloads == {"t1"}
NewStatuses == {"payment_completed", "draft"}

----------------------------------------------------------------------------
(* JavaScript values *)

Undefined == "undefined"

PaidAtUndefined == [kind |-> "undefined", ms |-> 0]
PaidAtNull == [kind |-> "null", ms |-> 0]
PaidAtMs(t) == [kind |-> "number", ms |-> t]

(* !x for the string-valued body fields: "" and a missing field are falsy *)
Falsy(x) == x = "" \/ x = Undefined

----------------------------------------------------------------------------
(* Array.prototype.findIndex / filter / map *)

RECURSIVE findIndexFrom(_, _, _)
findIndexFrom(drafts, referenceCode, i) ==
  IF i > Len(drafts) THEN 0
  ELSE IF drafts[i].referenceCode = referenceCode THEN i
  ELSE findIndexFrom(drafts, referenceCode, i + 1)

(* 0 stands for JavaScript's -1 (indices are 1-based here) *)
findIndex(drafts, referenceCode) == findIndexFrom(drafts, referenceCode, 1)

filterSeq(drafts, keep(_)) == SelectSeq(drafts, keep)

mapSeq(drafts, f(_)) == [i \in 1..Len(drafts) |-> f(drafts[i])]

----------------------------------------------------------------------------
(* config/dataStore.js.  A function that writes returns its boolean result *)
(* (ok) and the content the file is left with.                             *)

(* the catch branch returns [] *)
readDraftTrails(f) == IF fault = "read" THEN <<>> ELSE f

(* a write that throws leaves the file as it was and returns false *)
writeDraftTrails(f, drafts) ==
  IF fault = "write" THEN [ok |-> FALSE, file |-> f]
  ELSE [ok |-> TRUE, file |-> drafts]

getDraftTrail(f, referenceCode) ==
  LET drafts == readDraftTrails(f)
      i == findIndex(drafts, referenceCode)
  IN  IF i = 0 THEN [found |-> FALSE, draft |-> <<>>]
      ELSE [found |-> TRUE, draft |-> drafts[i]]

(* the existing-record branch is missing: the record is always pushed *)
saveDraftTrail_AlwaysPush(f, draftData) ==
  writeDraftTrails(f, Append(readDraftTrails(f), draftData))

saveDraftTrail(f, draftData) ==
  LET drafts == readDraftTrails(f)
      existingIndex == findIndex(drafts, draftData.referenceCode)
  IN  IF existingIndex > 0
      THEN writeDraftTrails(f, [drafts EXCEPT ![existingIndex] = draftData])
      ELSE writeDraftTrails(f, Append(drafts, draftData))

(* the filter tests === where the code tests !== *)
deleteDraftTrail_KeepsTarget(f, referenceCode) ==
  LET drafts == readDraftTrails(f)
      keep(d) == d.referenceCode = referenceCode
  IN  writeDraftTrails(f, filterSeq(drafts, keep))

deleteDraftTrail(f, referenceCode) ==
  LET drafts == readDraftTrails(f)
      keep(d) == d.referenceCode # referenceCode
  IN  writeDraftTrails(f, filterSeq(drafts, keep))

(* the update also renews the record's expiry by a day *)
updateDraftStatus_RenewsExpiry(f, referenceCode, status) ==
  LET drafts == readDraftTrails(f)
      draftIndex == findIndex(drafts, referenceCode)
  IN  IF draftIndex = 0 THEN [ok |-> FALSE, file |-> f]
      ELSE writeDraftTrails(f, [drafts EXCEPT ![draftIndex].status = status,
                                              ![draftIndex].expiresAt = @ + DAY])

(* the record is rebuilt from the fields of a new draft, so that isPaid    *)
(* and paidAt are reset                                                    *)
updateDraftStatus_ResetsPaid(f, referenceCode, status) ==
  LET drafts == readDraftTrails(f)
      draftIndex == findIndex(drafts, referenceCode)
  IN  IF draftIndex = 0 THEN [ok |-> FALSE, file |-> f]
      ELSE writeDraftTrails(f, [drafts EXCEPT ![draftIndex].status = status,
                                              ![draftIndex].isPaid = Undefined,
                                              ![draftIndex].paidAt = PaidAtUndefined])

updateDraftStatus(f, referenceCode, status) ==
  LET drafts == readDraftTrails(f)
      draftIndex == findIndex(drafts, referenceCode)
  IN  IF draftIndex = 0 THEN [ok |-> FALSE, file |-> f]
      ELSE writeDraftTrails(f, [drafts EXCEPT ![draftIndex].status = status])

(* the filtered collection is computed but never written back *)
cleanupExpiredDrafts_NoWrite(f, t) == f

(* yields the content the file is left with; the result of the write is    *)
(* not looked at                                                           *)
cleanupExpiredDrafts(f, t) ==
  LET drafts == readDraftTrails(f)
      keep(d) == d.expiresAt > t
      filtered == filterSeq(drafts, keep)
  IN  IF Len(filtered) < Len(drafts)
      THEN writeDraftTrails(f, filtered).file
      ELSE f

----------------------------------------------------------------------------
(* routes/draftTrails.js: helpers *)

(* the comparison is written the wrong way round *)
isExpired_Reversed(expiresAt, t) == t < expiresAt

isExpired(expiresAt, t) == t > expiresAt

(* Math.ceil(x / d) for d > 0 *)
Ceil(x, d) == -((-x) \div d)

(* the quotient is rounded down *)
getDaysRemaining_RoundsDown(expiresAt, t) ==
  LET daysLeft == (expiresAt - t) \div DAY
  IN  IF daysLeft > 0 THEN daysLeft ELSE 0

getDaysRemaining(expiresAt, t) ==
  LET daysLeft == Ceil(expiresAt - t, DAY)
  IN  IF daysLeft > 0 THEN daysLeft ELSE 0

----------------------------------------------------------------------------
(* middleware/auth.js *)

(* A bearer token is described by what split('.') and the decoding of its   *)
(* second segment yield: the number of segments, whether the payload       *)
(* parses, and the claims sub, email, iat and exp (epoch seconds).         *)
Token(segments, payloadOk, sub, email, hasIat, iat, hasExp, exp) ==
  [segments |-> segments, payloadOk |-> payloadOk, sub |-> sub,
   email |-> email, hasIat |-> hasIat, iat |-> iat,
   hasExp |-> hasExp, exp |-> exp]

(* an exp (seconds) that no clock value of the model reaches *)
FarExp == 2000000

TokenA == Token(3, TRUE, "u1", "a@x.com", TRUE, 1, TRUE, FarExp)
TokenB == Token(3, TRUE, "u2", "b@x.com", TRUE, 1, TRUE, FarExp)
TokenTwoSegments == Token(2, FALSE, Undefined, Undefined, FALSE, 0, FALSE, 0)
TokenExpired == Token(3, TRUE, "u1", "a@x.com", TRUE, 1, TRUE, 1)
(* the claims of user a@x.com without iat and exp *)
TokenNoExp == Token(3, TRUE, "u1", "a@x.com", FALSE, 0, FALSE, 0)

Tokens == {TokenA, TokenB, TokenTwoSegments, TokenExpired, TokenNoExp}

Rejected(reason) ==
  [valid |-> FALSE, error |-> reason, userId |-> Undefined,
   email |-> Undefined]

(* the test of parts.length is left out *)
extractUserFromToken_SegmentsUnchecked(token, t) ==
  LET nowSec == t \div 1000
  IN  IF ~token.payloadOk
      THEN Rejected("Failed to decode token payload")
      ELSE IF ~token.hasIat \/ ~token.hasExp
      THEN Rejected("Failed to extract user from token")
      ELSE IF token.exp # 0 /\ token.exp < nowSec
      THEN Rejected("Token has expired")
      ELSE IF Falsy(token.sub) \/ Falsy(token.email)
      THEN Rejected("Missing uid or email in token")
      ELSE [valid |-> TRUE, error |-> "",
            userId |-> token.sub, email |-> token.email]

(* Lines 118-119 log new Date(iat * 1000).toISOString() and the same for   *)
(* exp: for a missing claim the date is invalid, toISOString() throws a    *)
(* RangeError and the outer catch rejects the token.  exp && exp < now     *)
(* skips an exp of 0, which is falsy.                                      *)
extractUserFromToken(token, t) ==
  LET nowSec == t \div 1000
  IN  IF token.segments # 3
      THEN Rejected("Invalid token format - not a JWT")
      ELSE IF ~token.payloadOk
      THEN Rejected("Failed to decode token payload")
      ELSE IF ~token.hasIat \/ ~token.hasExp
      THEN Rejected("Failed to extract user from token")
      ELSE IF token.exp # 0 /\ token.exp < nowSec
      THEN Rejected("Token has expired")
      ELSE IF Falsy(token.sub) \/ Falsy(token.email)
      THEN Rejected("Missing uid or email in token")
      ELSE [valid |-> TRUE, error |-> "",
            userId |-> token.sub, email |-> token.email]

(* The Authorization header as authHeader.split(' ') sees it: the number   *)
(* of words, the first word and the token carried as second word.          *)
Header(words, scheme, token) ==
  [words |-> words, scheme |-> scheme, token |-> token]

NoHeader == Header(0, "", TokenTwoSegments)

(* no header, 'Bearer <token>' for every token, another scheme, a header   *)
(* of one word and one of three words                                      *)
Headers ==
  {NoHeader} \cup {Header(2, "Bearer", tk) : tk \in Tokens}
             \cup {Header(2, "Basic", TokenA), Header(1, "Bearer", TokenA),
                   Header(3, "Bearer", TokenA)}

(* the test of userExtraction.valid is left out: next() is called with     *)
(* whatever the extraction returned                                        *)
authMiddleware_AcceptsRejectedToken(authHeader, t) ==
  IF authHeader.words = 0
  THEN [ok |-> FALSE, status |-> 401, error |-> "Missing Authorization header",
        detail |-> "", email |-> Undefined, userId |-> Undefined]
  ELSE IF authHeader.words # 2 \/ authHeader.scheme # "Bearer"
  THEN [ok |-> FALSE, status |-> 401,
        error |-> "Invalid Authorization header format",
        detail |-> "", email |-> Undefined, userId |-> Undefined]
  ELSE LET userExtraction == extractUserFromToken(authHeader.token, t)
       IN  [ok |-> TRUE, status |-> 0, error |-> "", detail |-> "",
            email |-> userExtraction.email,
            userId |-> userExtraction.userId]

(* ok = next() was called and req.user is set; otherwise the 401 response *)
authMiddleware(authHeader, t) ==
  IF authHeader.words = 0
  THEN [ok |-> FALSE, status |-> 401, error |-> "Missing Authorization header",
        detail |-> "", email |-> Undefined, userId |-> Undefined]
  ELSE IF authHeader.words # 2 \/ authHeader.scheme # "Bearer"
  THEN [ok |-> FALSE, status |-> 401,
        error |-> "Invalid Authorization header format",
        detail |-> "", email |-> Undefined, userId |-> Undefined]
  ELSE LET userExtraction == extractUserFromToken(authHeader.token, t)
       IN  IF ~userExtraction.valid
           THEN [ok |-> FALSE, status |-> 401,
                 error |-> "Invalid or malformed token",
                 detail |-> userExtraction.error,
                 email |-> Undefined, userId |-> Undefined]
           ELSE [ok |-> TRUE, status |-> 0, error |-> "", detail |-> "",
                 email |-> userExtraction.email,
                 userId |-> userExtraction.userId]

----------------------------------------------------------------------------
(* middleware/auth.js: the self-signed tokens.  A string is a sequence of  *)
(* one-character strings.                                                  *)

(* the characters of the model and their character codes; "?" stands for   *)
(* any character outside the ones a token is built from                    *)
Ascii ==
  ("0" :> 48) @@ ("1" :> 49) @@ ("2" :> 50) @@ ("3" :> 51) @@ ("4" :> 52)
  @@ ("5" :> 53) @@ ("6" :> 54) @@ ("7" :> 55) @@ ("8" :> 56) @@ ("9" :> 57)
  @@ (":" :> 58) @@ ("?" :> 63) @@ ("a" :> 97) @@ ("b" :> 98) @@ ("c" :> 99)
  @@ ("d" :> 100) @@ ("e" :> 101) @@ ("f" :> 102) @@ ("s" :> 115)
  @@ ("u" :> 117)

DigitChars == <<"0", "1", "2", "3", "4", "5", "6", "7", "8", "9">>

HexChars == DigitChars \o <<"a", "b", "c", "d", "e", "f">>

(* `${n}` for a number n >= 0 *)
RECURSIVE numberToString(_)
numberToString(n) ==
  IF n < 10 THEN <<DigitChars[n + 1]>>
  ELSE Append(numberToString(n \div 10), DigitChars[(n % 10) + 1])

IsDigit(c) == \E i \in 1..10 : DigitChars[i] = c

DigitValue(c) == (CHOOSE i \in 1..10 : DigitChars[i] = c) - 1

NaN == -1

RECURSIVE parseDigits(_, _, _)
parseDigits(str, i, acc) ==
  IF i > Len(str) \/ ~IsDigit(str[i]) THEN acc
  ELSE parseDigits(str, i + 1, acc * 10 + DigitValue(str[i]))

(* parseInt: the number the leading digits spell; NaN when there are none *)
parseInt(str) ==
  IF Len(str) = 0 \/ ~IsDigit(str[1]) THEN NaN ELSE parseDigits(str, 1, 0)

(* String.prototype.split: the fields between the separators *)
RECURSIVE split(_, _)
split(str, sep) ==
  IF \A i \in 1..Len(str) : str[i] # sep THEN <<str>>
  ELSE LET k == CHOOSE i \in 1..Len(str) :
                  str[i] = sep /\ \A j \in 1..(i - 1) : str[j] # sep
       IN  <<SubSeq(str, 1, k - 1)>> \o split(SubSeq(str, k + 1, Len(str)), sep)

(* Buffer.from(str): the character codes of the string *)
toBytes(str) == [i \in 1..Len(str) |-> Ascii[str[i]]]

(* buf.toString('utf-8'): a byte that is none of the model's characters is *)
(* shown as "?"                                                            *)
fromByte(b) ==
  IF \E c \in DOMAIN Ascii : Ascii[c] = b
  THEN CHOOSE c \in DOMAIN Ascii : Ascii[c] = b
  ELSE "?"

bytesToString(bytes) == [i \in 1..Len(bytes) |-> fromByte(bytes[i])]

B64Chars ==
  <<"A", "B", "C", "D", "E", "F", "G", "H", "I", "J", "K", "L", "M", "N", "O",
    "P", "Q", "R", "S", "T", "U", "V", "W", "X", "Y", "Z", "a", "b", "c", "d",
    "e", "f", "g", "h", "i", "j", "k", "l", "m", "n", "o", "p", "q", "r", "s",
    "t", "u", "v", "w", "x", "y", "z", "0", "1", "2", "3", "4", "5", "6", "7",
    "8", "9", "+", "/">>

B64Value(c) == (CHOOSE i \in 1..Len(B64Chars) : B64Chars[i] = c) - 1

(* buf.toString('base64'): three bytes give four characters, the rest is   *)
(* padded with '='                                                         *)
RECURSIVE base64Encode(_)
base64Encode(bytes) ==
  IF Len(bytes) = 0 THEN <<>>
  ELSE IF Len(bytes) = 1
  THEN LET n == bytes[1] * 16
       IN  <<B64Chars[(n \div 64) + 1], B64Chars[(n % 64) + 1], "=", "=">>
  ELSE IF Len(bytes) = 2
  THEN LET n == (bytes[1] * 256 + bytes[2]) * 4
       IN  <<B64Chars[(n \div 4096) + 1], B64Chars[((n \div 64) % 64) + 1],
             B64Chars[(n % 64) + 1], "=">>
  ELSE LET n == bytes[1] * 65536 + bytes[2] * 256 + bytes[3]
       IN  <<B64Chars[(n \div 262144) + 1], B64Chars[((n \div 4096) % 64) + 1],
             B64Chars[((n \div 64) % 64) + 1], B64Chars[(n % 64) + 1]>>
           \o base64Encode(SubSeq(bytes, 4, Len(bytes)))

RECURSIVE decodeSextets(_)
decodeSextets(chars) ==
  IF Len(chars) < 2 THEN <<>>
  ELSE IF Len(chars) = 2
  THEN LET n == B64Value(chars[1]) * 64 + B64Value(chars[2])
       IN  <<n \div 16>>
  ELSE IF Len(chars) = 3
  THEN LET n == B64Value(chars[1]) * 4096 + B64Value(chars[2]) * 64
                + B64Value(chars[3])
       IN  <<n \div 1024, (n \div 4) % 256>>
  ELSE LET n == B64Value(chars[1]) * 262144 + B64Value(chars[2]) * 4096
                + B64Value(chars[3]) * 64 + B64Value(chars[4])
       IN  <<n \div 65536, (n \div 256) % 256, n % 256>>
           \o decodeSextets(SubSeq(chars, 5, Len(chars)))

(* Buffer.from(token, 'base64'): the padding carries no data *)
base64Decode(token) ==
  LET isData(c) == c # "="
  IN  decodeSextets(SelectSeq(token, isData))

(* digest('hex') of a byte *)
byteHex(b) == <<HexChars[(b \div 16) + 1], HexChars[(b % 16) + 1]>>

RECURSIVE bytesHex(_)
bytesHex(bytes) ==
  IF Len(bytes) = 0 THEN <<>>
  ELSE byteHex(bytes[1]) \o bytesHex(Tail(bytes))

(* process.env.JWT_SECRET || 'your-secret-key-change-in-production' *)
Secret == <<"s">>

(* crypto.createHmac('sha256', secret).update(data).digest('hex').  The    *)
(* keyed hash is taken as perfect: a string of hex digits that differs     *)
(* whenever secret or data differ, here the hex form of both.              *)
createHmac(secret, data) == bytesHex(toBytes(secret \o data))

generateToken(userId, t) ==
  LET timestamp == t
      data == userId \o <<":">> \o numberToString(timestamp)
      signature == createHmac(Secret, data)
  IN  base64Encode(toBytes(data \o <<":">> \o signature))

Refused(reason) ==
  [valid |-> FALSE, error |-> reason, userId |-> <<>>, timestamp |-> NaN]

(* the comparison with the expected signature is left out *)
verifyToken_SignatureUnchecked(token) ==
  LET decoded == bytesToString(base64Decode(token))
      parts == split(decoded, ":")
  IN  IF Len(parts) < 3
      THEN Refused("Token verification failed")
      ELSE IF parts[1] = <<>> \/ parts[2] = <<>> \/ parts[3] = <<>>
      THEN Refused("Invalid token format")
      ELSE [valid |-> TRUE, error |-> "", userId |-> parts[1],
            timestamp |-> parseInt(parts[2])]

(* const [userId, timestamp, signature] = decoded.split(':') takes the     *)
(* first three fields.  With fewer than three fields signature is          *)
(* undefined and signature.substring (line 47) throws, which the catch     *)
(* turns into 'Token verification failed'.                                 *)
verifyToken(token) ==
  LET decoded == bytesToString(base64Decode(token))
      parts == split(decoded, ":")
  IN  IF Len(parts) < 3
      THEN Refused("Token verification failed")
      ELSE LET userId == parts[1]
               timestamp == parts[2]
               signature == parts[3]
               data == userId \o <<":">> \o timestamp
               expectedSignature == createHmac(Secret, data)
           IN  IF userId = <<>> \/ timestamp = <<>> \/ signature = <<>>
               THEN Refused("Invalid token format")
               ELSE IF signature # expectedSignature
               THEN Refused("Token signature invalid")
               ELSE [valid |-> TRUE, error |-> "", userId |-> userId,
                     timestamp |-> parseInt(timestamp)]

----------------------------------------------------------------------------
(* Requests: method, path below /api/draft-trails split at '/', the        *)
(* Authorization header and the JSON body (a missing field is Undefined).  *)

Body(referenceCode, userId, userEmail, trailData, status, isPaid) ==
  [referenceCode |-> referenceCode, userId |-> userId,
   userEmail |-> userEmail, trailData |-> trailData,
   status |-> status, isPaid |-> isPaid]

EmptyBody == Body(Undefined, Undefined, Undefined, Undefined, Undefined, Undefined)

Request(method, path, authorization, body) ==
  [method |-> method, path |-> path, authorization |-> authorization,
   body |-> body]

NoRequest == Request("", <<>>, NoHeader, EmptyBody)

HeaderA == Header(2, "Bearer", TokenA)
HeaderB == Header(2, "Bearer", TokenB)

(* A self-signed token as extractUserFromToken sees it: token.split('.')   *)
(* gives the number of segments.  The text is base64, which has no '.',    *)
(* so the second segment, looked at only when there are three, is never    *)
(* decoded.                                                                *)
bearerOf(token) ==
  Token(Len(split(token, ".")), FALSE, Undefined, Undefined, FALSE, 0,
        FALSE, 0)

(* Authorization: Bearer <generateToken('u1')>, issued when the server     *)
(* started                                                                 *)
HeaderSelfSigned ==
  Header(2, "Bearer", bearerOf(generateToken(<<"u", "1">>, T0)))

(* create requests: two owners for REF-1, one for the second code, and one *)
(* request that misses a required field                                    *)
PostBodies ==
  {Body("REF-1", "u1", "a@x.com", p, Undefined, Undefined) : p \in Payloads}
  \cup {Body(c, "u2", "b@x.com", p, Undefined, Undefined) :
          c \in Codes, p \in Payloads}
  \cup {Body("", "u1", "a@x.com", "t1", Undefined, Undefined)}

PostRequests == {Request("POST", <<>>, NoHeader, b) : b \in PostBodies}

GetPaths ==
  {<<>>, <<"user">>, <<"user", "u1">>} \cup {<<c>> : c \in Codes}

GetRequests ==
  {Request("GET", p, NoHeader, EmptyBody) : p \in GetPaths}
  \cup {Request("GET", <<"my-drafts">>, h, EmptyBody) : h \in Headers}

StatusBody(st) == Body(Undefined, Undefined, Undefined, Undefined, st, Undefined)

PaidBody(p) == Body(Undefined, Undefined, Undefined, Undefined, Undefined, p)

PutRequests ==
  {Request("PUT", <<c, "status">>, h, StatusBody(st)) :
     c \in Codes, h \in {HeaderA, HeaderB}, st \in NewStatuses}
  \cup {Request("PUT", <<"REF-1", "status">>, HeaderA, StatusBody(Undefined))}
  \cup {Request("PUT", <<"REF-1", "status">>, h, StatusBody("payment_completed")) :
     h \in Headers}
  \cup {Request("PUT", <<"REF-1", "paid">>, h, PaidBody("true")) : h \in Headers}
  \cup {Request("PUT", <<"REF-1", "paid">>, h, PaidBody(p)) :
     h \in {HeaderA, HeaderB}, p \in {"true", "false"}}
  \cup {Request("PUT", <<"my-drafts", "paid">>, HeaderA, PaidBody("true")),
        Request("PUT", <<"REF-1", "paid">>, HeaderA, PaidBody(Undefined)),
        Request("PUT", <<"REF-1">>, HeaderA, StatusBody("payment_completed"))}

DeleteRequests ==
  {Request("DELETE", <<c>>, h, EmptyBody) : c \in Codes, h \in {HeaderA, HeaderB}}
  \cup {Request("DELETE", <<"REF-1">>, h, EmptyBody) : h \in Headers}

(* the four guarded endpoints, called with a self-signed token *)
SelfSignedRequests ==
  {Request("GET", <<"my-drafts">>, HeaderSelfSigned, EmptyBody),
   Request("PUT", <<"REF-1", "status">>, HeaderSelfSigned,
           StatusBody("payment_completed")),
   Request("PUT", <<"REF-1", "paid">>, HeaderSelfSigned, PaidBody("true")),
   Request("DELETE", <<"REF-1">>, HeaderSelfSigned, EmptyBody)}

Requests ==
  PostRequests \cup GetRequests \cup PutRequests \cup DeleteRequests
  \cup SelfSignedRequests

----------------------------------------------------------------------------
(* routes/draftTrails.js: the routes in the order they are registered.     *)
(* A pattern segment is a literal or a named parameter.                    *)

Lit(s) == [param |-> FALSE, name |-> s]
Param(s) == [param |-> TRUE, name |-> s]

(* the generic GET /:referenceCode is registered first *)
Routes_GenericFirst ==
  << [method |-> "GET", pattern |-> <<Param("referenceCode")>>,
      handler |-> "getByCode"],
     [method |-> "POST", pattern |-> <<>>, handler |-> "create"],
     [method |-> "GET", pattern |-> <<>>, handler |-> "listAll"],
     [method |-> "GET", pattern |-> <<Lit("my-drafts")>>,
      handler |-> "myDrafts"],
     [method |-> "GET", pattern |-> <<Lit("user")>>, handler |-> "userHint"],
     [method |-> "GET", pattern |-> <<Lit("user"), Param("userId")>>,
      handler |-> "userDrafts"],
     [method |-> "PUT", pattern |-> <<Param("referenceCode"), Lit("status")>>,
      handler |-> "updateStatus"],
     [method |-> "PUT", pattern |-> <<Param("referenceCode"), Lit("paid")>>,
      handler |-> "updatePaid"],
     [method |-> "DELETE", pattern |-> <<Param("referenceCode")>>,
      handler |-> "delete"] >>

Routes ==
  << [method |-> "POST", pattern |-> <<>>, handler |-> "create"],
     [method |-> "GET", pattern |-> <<>>, handler |-> "listAll"],
     [method |-> "GET", pattern |-> <<Lit("my-drafts")>>,
      handler |-> "myDrafts"],
     [method |-> "GET", pattern |-> <<Lit("user")>>, handler |-> "userHint"],
     [method |-> "GET", pattern |-> <<Lit("user"), Param("userId")>>,
      handler |-> "userDrafts"],
     [method |-> "PUT", pattern |-> <<Param("referenceCode"), Lit("status")>>,
      handler |-> "updateStatus"],
     [method |-> "PUT", pattern |-> <<Param("referenceCode"), Lit("paid")>>,
      handler |-> "updatePaid"],
     [method |-> "DELETE", pattern |-> <<Param("referenceCode")>>,
      handler |-> "delete"],
     [method |-> "GET", pattern |-> <<Param("referenceCode")>>,
      handler |-> "getByCode"] >>

(* Express: a layer matches when the path has as many segments as the      *)
(* pattern and every literal segment is equal; a parameter takes any       *)
(* non-empty segment.                                                      *)
PathMatches(pattern, path) ==
  /\ Len(pattern) = Len(path)
  /\ \A i \in 1..Len(pattern) :
        \/ pattern[i].param /\ path[i] # ""
        \/ ~pattern[i].param /\ pattern[i].name = path[i]

RouteMatches(route, r) ==
  route.method = r.method /\ PathMatches(route.pattern, r.path)

RECURSIVE FirstMatchFrom(_, _, _)
FirstMatchFrom(routes, r, i) ==
  IF i > Len(routes) THEN 0
  ELSE IF RouteMatches(routes[i], r) THEN i
  ELSE FirstMatchFrom(routes, r, i + 1)

(* the handler the router runs for a request; "notFound" is the            *)
(* application's 404 handler of index.js                                   *)
Dispatch(r) ==
  LET i == FirstMatchFrom(Routes, r, 1)
  IN  IF i = 0 THEN "notFound" ELSE Routes[i].handler

(* req.params of the matched route *)
ParamOf(r, k) == r.path[k]

----------------------------------------------------------------------------
(* routes/draftTrails.js: the handlers.  Each takes the request, the file  *)
(* content and Date.now() and yields the file content it leaves and the    *)
(* response it sends.                                                      *)

Response(handler, status, body) ==
  [handler |-> handler, status |-> status, body |-> body]

NoResponse == Response("", 0, [error |-> ""])

Outcome(f, response) == [file |-> f, res |-> response]

(* { ...draft, daysRemaining } *)
WithDaysRemaining(draft, t) ==
  [draft EXCEPT !.daysRemaining = getDaysRemaining(draft.expiresAt, t)]

(* { ...draft, daysRemaining, isExpired } *)
ListEntry(draft, t) ==
  [k \in DOMAIN draft \cup {"isExpired"} |->
     IF k = "isExpired" THEN isExpired(draft.expiresAt, t)
     ELSE IF k = "daysRemaining" THEN getDaysRemaining(draft.expiresAt, t)
     ELSE draft[k]]

(* paidAt is set to the current time whatever isPaid is *)
Truthy_Always(isPaid) == TRUE

Truthy(isPaid) == isPaid = "true"

(* the ownership check is left out *)
notOwner_Skipped(draft, user) == FALSE

(* draft.userEmail !== userEmail *)
notOwner(draft, user) == draft.userEmail # user.email

postCreate(r, f, t) ==
  LET b == r.body
  IN  IF Falsy(b.referenceCode) \/ Falsy(b.userId) \/ Falsy(b.userEmail)
         \/ Falsy(b.trailData)
      THEN Outcome(f, Response("create", 400,
             [error |-> "Missing required fields: referenceCode, userId, userEmail, trailData"]))
      ELSE LET expiresAt == t + TTL
               draftData == [referenceCode |-> b.referenceCode,
                             userId |-> b.userId,
                             userEmail |-> b.userEmail,
                             trailData |-> b.trailData,
                             status |-> "draft",
                             createdAt |-> t,
                             expiresAt |-> expiresAt,
                             daysRemaining |-> 7,
                             isPaid |-> Undefined,
                             paidAt |-> PaidAtUndefined]
               success == saveDraftTrail(f, draftData)
           IN  IF ~success.ok
               THEN Outcome(success.file, Response("create", 500,
                      [error |-> "Failed to save draft trail"]))
               ELSE Outcome(success.file,
                 Response("create", 201,
                   [success |-> TRUE,
                    message |-> "Draft trail saved successfully",
                    referenceCode |-> b.referenceCode,
                    userId |-> b.userId, userEmail |-> b.userEmail,
                    daysRemaining |-> 7]))

getAll(r, f, t) ==
  LET cleaned == cleanupExpiredDrafts(f, t)
      entry(d) == ListEntry(d, t)
      allDrafts == mapSeq(readDraftTrails(cleaned), entry)
  IN  Outcome(cleaned, Response("listAll", 200,
        [total |-> Len(allDrafts), drafts |-> allDrafts]))

getMyDrafts(r, f, t, user) ==
  LET cleaned == cleanupExpiredDrafts(f, t)
      mine(d) == d.userEmail = user.email /\ ~isExpired(d.expiresAt, t)
      entry(d) == ListEntry(d, t)
      userDrafts == mapSeq(filterSeq(readDraftTrails(cleaned), mine), entry)
  IN  Outcome(cleaned, Response("myDrafts", 200,
        [success |-> TRUE, userEmail |-> user.email,
         total |-> Len(userDrafts), drafts |-> userDrafts]))

getUserHint(r, f, t) ==
  Outcome(f, Response("userHint", 400, [error |-> "Missing userId parameter"]))

getUserDrafts(r, f, t) ==
  LET userId == ParamOf(r, 2)
      cleaned == cleanupExpiredDrafts(f, t)
      mine(d) == d.userId = userId /\ ~isExpired(d.expiresAt, t)
      entry(d) == ListEntry(d, t)
      userDrafts == mapSeq(filterSeq(readDraftTrails(cleaned), mine), entry)
  IN  IF Falsy(userId)
      THEN Outcome(f, Response("userDrafts", 400,
             [error |-> "Missing required parameter: userId"]))
      ELSE Outcome(cleaned, Response("userDrafts", 200,
             [success |-> TRUE, userId |-> userId,
              total |-> Len(userDrafts), drafts |-> userDrafts]))

(* the record is looked up before the body is validated *)
putStatus_ExistenceFirst(r, f, t, user) ==
  LET referenceCode == ParamOf(r, 1)
      status == r.body.status
      got == getDraftTrail(f, referenceCode)
      upd == updateDraftStatus(f, referenceCode, status)
  IN  IF ~got.found
      THEN Outcome(f, Response("updateStatus", 404,
             [error |-> "Draft trail not found",
              requestedCode |-> referenceCode]))
      ELSE IF notOwner(got.draft, user)
      THEN Outcome(f, Response("updateStatus", 403,
             [error |-> "Unauthorized: You can only update your own drafts"]))
      ELSE IF Falsy(status)
      THEN Outcome(f, Response("updateStatus", 400,
             [error |-> "Missing required field: status"]))
      ELSE IF ~upd.ok
      THEN Outcome(upd.file, Response("updateStatus", 500,
             [error |-> "Failed to update draft trail status"]))
      ELSE Outcome(upd.file, Response("updateStatus", 200,
             [success |-> TRUE, message |-> "Draft trail status updated",
              status |-> status]))

putStatus(r, f, t, user) ==
  LET referenceCode == ParamOf(r, 1)
      status == r.body.status
      got == getDraftTrail(f, referenceCode)
      upd == updateDraftStatus(f, referenceCode, status)
  IN  IF Falsy(status)
      THEN Outcome(f, Response("updateStatus", 400,
             [error |-> "Missing required field: status"]))
      ELSE IF ~got.found
      THEN Outcome(f, Response("updateStatus", 404,
             [error |-> "Draft trail not found",
              requestedCode |-> referenceCode]))
      ELSE IF notOwner(got.draft, user)
      THEN Outcome(f, Response("updateStatus", 403,
             [error |-> "Unauthorized: You can only update your own drafts"]))
      ELSE IF ~upd.ok
      THEN Outcome(upd.file, Response("updateStatus", 500,
             [error |-> "Failed to update draft trail status"]))
      ELSE Outcome(upd.file, Response("updateStatus", 200,
             [success |-> TRUE, message |-> "Draft trail status updated",
              status |-> status]))

putPaid(r, f, t, user) ==
  LET referenceCode == ParamOf(r, 1)
      isPaid == r.body.isPaid
      got == getDraftTrail(f, referenceCode)
      allDrafts == readDraftTrails(f)
      draftIndex == findIndex(allDrafts, referenceCode)
      paidAt == IF Truthy(isPaid) THEN PaidAtMs(t) ELSE PaidAtNull
      success == writeDraftTrails(f,
                   [allDrafts EXCEPT ![draftIndex].isPaid = isPaid,
                                     ![draftIndex].paidAt = paidAt])
  IN  IF isPaid = Undefined
      THEN Outcome(f, Response("updatePaid", 400,
             [error |-> "Missing required field: isPaid"]))
      ELSE IF ~got.found
      THEN Outcome(f, Response("updatePaid", 404,
             [error |-> "Draft trail not found",
              requestedCode |-> referenceCode]))
      ELSE IF notOwner(got.draft, user)
      THEN Outcome(f, Response("updatePaid", 403,
             [error |-> "Unauthorized: You can only update your own drafts"]))
      ELSE IF draftIndex = 0
      THEN Outcome(f, Response("updatePaid", 404,
             [error |-> "Draft trail not found"]))
      ELSE IF ~success.ok
      THEN Outcome(success.file, Response("updatePaid", 500,
             [error |-> "Failed to update draft trail paid status"]))
      ELSE Outcome(success.file,
             Response("updatePaid", 200,
               [success |-> TRUE,
                message |-> "Draft trail paid status updated",
                isPaid |-> isPaid, paidAt |-> paidAt]))

(* the 403 response names the owner of the record *)
deleteDraft_LeaksOwner(r, f, t, user) ==
  LET referenceCode == ParamOf(r, 1)
      got == getDraftTrail(f, referenceCode)
  IN  IF ~got.found
      THEN Outcome(f, Response("delete", 404,
             [error |-> "Draft trail not found",
              requestedCode |-> referenceCode]))
      ELSE IF notOwner(got.draft, user)
      THEN Outcome(f, Response("delete", 403,
             [error |-> "Unauthorized: You can only delete your own drafts",
              owner |-> got.draft.userEmail]))
      ELSE Outcome(deleteDraftTrail(f, referenceCode).file,
             Response("delete", 200,
               [success |-> TRUE,
                message |-> "Draft trail deleted successfully"]))

deleteDraft(r, f, t, user) ==
  LET referenceCode == ParamOf(r, 1)
      got == getDraftTrail(f, referenceCode)
  IN  IF ~got.found
      THEN Outcome(f, Response("delete", 404,
             [error |-> "Draft trail not found",
              requestedCode |-> referenceCode]))
      ELSE IF notOwner(got.draft, user)
      THEN Outcome(f, Response("delete", 403,
             [error |-> "Unauthorized: You can only delete your own drafts"]))
      ELSE Outcome(deleteDraftTrail(f, referenceCode).file,
             Response("delete", 200,
               [success |-> TRUE,
                message |-> "Draft trail deleted successfully"]))

getByCode(r, f, t) ==
  LET referenceCode == ParamOf(r, 1)
      got == getDraftTrail(f, referenceCode)
  IN  IF ~got.found
      THEN Outcome(f, Response("getByCode", 404,
             [error |-> "Draft trail not found",
              requestedCode |-> referenceCode,
              totalDraftsInDatabase |-> Len(readDraftTrails(f))]))
      ELSE IF isExpired(got.draft.expiresAt, t)
      THEN Outcome(deleteDraftTrail(f, referenceCode).file,
             Response("getByCode", 410,
               [expired |-> TRUE, error |-> "Draft trail has expired",
                expiresAt |-> got.draft.expiresAt]))
      ELSE Outcome(f, Response("getByCode", 200,
             WithDaysRemaining(got.draft, t)))

(* index.js: the application's 404 handler *)
notFound(r, f, t) ==
  Outcome(f, Response("notFound", 404, [error |-> "Not found"]))

(* a route registered as (path, authMiddleware, handler) *)
withAuth(handler, r, f, t, guarded(_, _, _, _)) ==
  LET auth == authMiddleware(r.authorization, t)
  IN  IF ~auth.ok
      THEN Outcome(f, Response(handler, auth.status,
             [error |-> auth.error, detail |-> auth.detail]))
      ELSE guarded(r, f, t, [email |-> auth.email, userId |-> auth.userId])

(* what the server does with a request *)
Serve(r, f, t) ==
  LET h == Dispatch(r)
  IN  CASE h = "create" -> postCreate(r, f, t)
        [] h = "listAll" -> getAll(r, f, t)
        [] h = "myDrafts" -> withAuth(h, r, f, t, getMyDrafts)
        [] h = "userHint" -> getUserHint(r, f, t)
        [] h = "userDrafts" -> getUserDrafts(r, f, t)
        [] h = "updateStatus" -> withAuth(h, r, f, t, putStatus)
        [] h = "updatePaid" -> withAuth(h, r, f, t, putPaid)
        [] h = "delete" -> withAuth(h, r, f, t, deleteDraft)
        [] h = "getByCode" -> getByCode(r, f, t)
        [] OTHER -> notFound(r, f, t)

----------------------------------------------------------------------------
(* The state machine *)

(* no token function has been called *)
NoCall == [op |-> "none"]

(* the relational store before any row is written *)
EmptyDb == [users |-> <<>>, draft_trails |-> <<>>]

(* no Lambda invocation yet *)
NoInvocation == [op |-> "none"]

Init ==
  /\ file = <<>>
  /\ now = T0
  /\ ticks = 0
  /\ req = NoRequest
  /\ res = NoResponse
  /\ fault = "none"
  /\ inflight = {}
  /\ served = <<>>
  /\ tok = NoCall
  /\ db = EmptyDb
  /\ lambda = NoInvocation

(* the server handles request r, which the router gives to handler h *)
Handle(r, h) ==
  /\ req = NoRequest
  /\ Dispatch(r) = h
  /\ LET out == Serve(r, file, now)
     IN  /\ file' = out.file
         /\ res' = out.res
  /\ req' = r
  /\ UNCHANGED <<now, ticks, fault, inflight, served, tok, db, lambda>>

Create == \E r \in Requests : Handle(r, "create")
ListAll == \E r \in Requests : Handle(r, "listAll")
MyDrafts == \E r \in Requests : Handle(r, "myDrafts")
UserHint == \E r \in Requests : Handle(r, "userHint")
UserDrafts == \E r \in Requests : Handle(r, "userDrafts")
UpdateStatus == \E r \in Requests : Handle(r, "updateStatus")
UpdatePaid == \E r \in Requests : Handle(r, "updatePaid")
Delete == \E r \in Requests : Handle(r, "delete")
GetByCode == \E r \in Requests : Handle(r, "getByCode")
NotFound == \E r \in Requests : Handle(r, "notFound")

(* the response has been sent; the server waits for the next request *)
Respond ==
  /\ req # NoRequest
  /\ req' = NoRequest
  /\ res' = NoResponse
  /\ UNCHANGED <<file, now, ticks, fault, inflight, served, tok, db, lambda>>

(* time passes between requests *)
Tick ==
  /\ req = NoRequest
  /\ ticks < MaxTicks
  /\ \E d \in TickSteps :
        /\ now + d <= T0 + TTL + MaxTicks
        /\ now' = now + d
  /\ ticks' = ticks + 1
  /\ UNCHANGED <<file, req, res, fault, inflight, served, tok, db, lambda>>

Next ==
  \/ Create
  \/ ListAll
  \/ MyDrafts
  \/ UserHint
  \/ UserDrafts
  \/ UpdateStatus
  \/ UpdatePaid
  \/ Delete
  \/ GetByCode
  \/ NotFound
  \/ Respond
  \/ Tick

Spec == Init /\ [][Next]_vars

----------------------------------------------------------------------------
(* The server on a data file that can fail.  Between two requests the file *)
(* becomes unreadable (the read throws or the content does not parse),     *)
(* unwritable, or sound again; the condition holds for every read and      *)
(* write of the request served next.                                       *)

Faults == {"none", "read", "write"}

FileFault ==
  /\ req = NoRequest
  /\ \E c \in Faults : c # fault /\ fault' = c
  /\ UNCHANGED <<file, now, ticks, req, res, inflight, served, tok, db, lambda>>

NextIO == Next \/ FileFault

SpecIO == Init /\ [][NextIO]_vars

----------------------------------------------------------------------------
(* Several requests at once.  A request that has arrived waits in the      *)
(* event loop (inflight) until its handler is run; the order is free.      *)
(* Every handler, the middleware in front of it included, reads and writes *)
(* the file with readFileSync / writeFileSync and never awaits, so it runs *)
(* from its first read to its response without another handler in          *)
(* between: the reads and writes of two requests do not interleave.        *)
(* served keeps the last two requests run, each with the requests that     *)
(* were waiting at that moment.                                            *)

ConcRequests ==
  {Request("POST", <<>>, NoHeader,
           Body("REF-1", "u1", "a@x.com", "t1", Undefined, Undefined)),
   Request("PUT", <<"REF-1", "status">>, HeaderA, StatusBody("payment_completed")),
   Request("PUT", <<"REF-1", "paid">>, HeaderA, PaidBody("true")),
   Request("DELETE", <<"REF-1">>, HeaderA, EmptyBody),
   Request("POST", <<>>, NoHeader,
           Body("REF-1", "u2", "b@x.com", "t1", Undefined, Undefined)),
   Request("GET", <<>>, NoHeader, EmptyBody)}

lastTwo(entries) ==
  IF Len(entries) <= 2 THEN entries
  ELSE SubSeq(entries, Len(entries) - 1, Len(entries))

Arrive ==
  /\ Cardinality(inflight) < MaxInFlight
  /\ \E r \in ConcRequests \ inflight : inflight' = inflight \cup {r}
  /\ UNCHANGED <<file, now, ticks, req, res, fault, served, tok, db, lambda>>

Run ==
  /\ \E r \in inflight :
        LET out == Serve(r, file, now)
        IN  /\ file' = out.file
            /\ served' = lastTwo(Append(served,
                           [req |-> r, res |-> out.res,
                            others |-> inflight \ {r}]))
            /\ inflight' = inflight \ {r}
  /\ UNCHANGED <<now, ticks, req, res, fault, tok, db, lambda>>

NextConc == Arrive \/ Run \/ Tick

SpecConc == Init /\ [][NextConc]_vars

----------------------------------------------------------------------------
(* The token functions of middleware/auth.js, called on their own: a       *)
(* self-signed token is issued and then verified, as issued or with one    *)
(* character of its signature changed, and extractUserFromToken is given   *)
(* bearer tokens of every shape, at every time of the clock.               *)

UserIds == {<<"u">>, <<"u", "1">>, <<"u", ":", "1">>, <<":", "u">>}

(* a hex digit, another one, the separator and a character of neither kind *)
ChangedChars == {"0", "f", ":", "?"}

ExpValues == {-1, 0, 1, T0 \div 1000, (T0 + TTL) \div 1000, FarExp}

ExternalTokens ==
  {Token(n, ok, sub, email, hasIat, 1, hasExp, exp) :
     n \in 1..4, ok \in BOOLEAN, sub \in {"u1", "", Undefined},
     email \in {"a@x.com", Undefined}, hasIat \in BOOLEAN,
     hasExp \in BOOLEAN, exp \in ExpValues}

(* the position of the last ':' of a token's text; the signature follows *)
lastColon(str) ==
  CHOOSE k \in 1..Len(str) :
    str[k] = ":" /\ \A j \in (k + 1)..Len(str) : str[j] # ":"

(* the token with the i-th character of its signature replaced by c *)
changeSignatureChar(token, i, c) ==
  LET decoded == bytesToString(base64Decode(token))
      k == lastColon(decoded)
  IN  base64Encode(toBytes([decoded EXCEPT ![k + i] = c]))

signatureOf(token) ==
  LET decoded == bytesToString(base64Decode(token))
  IN  SubSeq(decoded, lastColon(decoded) + 1, Len(decoded))

Generate ==
  /\ tok = NoCall
  /\ \E userId \in UserIds :
        tok' = [op |-> "generateToken", userId |-> userId, issuedAt |-> now,
                token |-> generateToken(userId, now),
                result |-> Refused("")]
  /\ UNCHANGED <<file, now, ticks, req, res, fault, inflight, served, db, lambda>>

Verify ==
  /\ tok.op = "generateToken"
  /\ tok' = [tok EXCEPT !.op = "verifyToken",
                        !.result = verifyToken(tok.token)]
  /\ UNCHANGED <<file, now, ticks, req, res, fault, inflight, served, db, lambda>>

VerifyChanged ==
  /\ tok.op = "generateToken"
  /\ \E i \in 1..Len(signatureOf(tok.token)) : \E c \in ChangedChars :
        /\ signatureOf(tok.token)[i] # c
        /\ LET changed == changeSignatureChar(tok.token, i, c)
           IN  tok' = [tok EXCEPT !.op = "verifyChanged",
                                  !.token = changed,
                                  !.result = verifyToken(changed)]
  /\ UNCHANGED <<file, now, ticks, req, res, fault, inflight, served, db, lambda>>

Extract ==
  /\ tok = NoCall
  /\ \E token \in ExternalTokens :
        tok' = [op |-> "extractUserFromToken", token |-> token, at |-> now,
                result |-> extractUserFromToken(token, now)]
  /\ UNCHANGED <<file, now, ticks, req, res, fault, inflight, served, db, lambda>>

(* decoded texts of tokens that generateToken did not issue: one field,   *)
(* two fields, three fields with an empty one, four fields, and four       *)
(* fields of which the third is the signature of the first two            *)
ForeignTexts ==
  {<<"u">>, <<"u", ":", "5">>, <<"u", ":", "5", ":">>,
   <<":", "5", ":", "a", "b">>, <<"u", ":", ":", "a", "b">>,
   <<"u", ":", "5", ":", "a", "b", ":", "c">>,
   <<"u", ":", "5", ":">> \o createHmac(Secret, <<"u", ":", "5">>)
     \o <<":", "c">>}

(* verifyToken is given a token from elsewhere *)
VerifyForeign ==
  /\ tok = NoCall
  /\ \E text \in ForeignTexts :
        LET token == base64Encode(toBytes(text))
        IN  tok' = [op |-> "verifyForeign", token |-> token,
                    result |-> verifyToken(token)]
  /\ UNCHANGED <<file, now, ticks, req, res, fault, inflight, served, db, lambda>>

(* the caller has the result *)
Return ==
  /\ tok # NoCall
  /\ tok.op # "generateToken"
  /\ tok' = NoCall
  /\ UNCHANGED <<file, now, ticks, req, res, fault, inflight, served, db, lambda>>

NextToken ==
  Generate \/ Verify \/ VerifyChanged \/ VerifyForeign \/ Extract \/ Return
  \/ Tick

SpecToken == Init /\ [][NextToken]_vars

----------------------------------------------------------------------------
(* The relational variant: the Lambda handlers of draft trails on the      *)
(* MySQL tables users and draft_trails (services/draftTrailsService.js,    *)
(* db/mysql.js).  db holds the rows of the two tables, lambda the last     *)
(* invocation with its response.  Invocations are taken one at a time.     *)

(* a TIMESTAMP column holds whole seconds: what                            *)
(* toISOString().slice(0, 19) keeps of a time in milliseconds              *)
toTimestamp(ms) == ms \div 1000

(* NOW() and CURRENT_TIMESTAMP at the time t of the clock *)
NOW(t) == t \div 1000

(* new Date(column): the milliseconds of a TIMESTAMP value *)
fromTimestamp(sec) == sec * 1000

(* the position of the first row that satisfies Test, 0 if there is none *)
firstRow(rows, Test(_)) ==
  IF \E i \in 1..Len(rows) : Test(rows[i])
  THEN CHOOSE i \in 1..Len(rows) :
         Test(rows[i]) /\ \A j \in 1..(i - 1) : ~Test(rows[j])
  ELSE 0

(* SELECT id FROM users WHERE userId = ?, else INSERT INTO users.  The     *)
(* INSERT fails on the UNIQUE index of email; the error is thrown on.      *)
getOrCreateUser(d, userId, email) ==
  LET byUserId(u) == u.userId = userId
      byEmail(u) == u.email = email
      found == firstRow(d.users, byUserId)
      insertId == Len(d.users) + 1
  IN  IF found > 0
      THEN [ok |-> TRUE, db |-> d, id |-> d.users[found].id]
      ELSE IF firstRow(d.users, byEmail) > 0
      THEN [ok |-> FALSE, db |-> d, id |-> 0]
      ELSE [ok |-> TRUE,
            db |-> [d EXCEPT !.users =
                      Append(@, [id |-> insertId, userId |-> userId,
                                 email |-> email])],
            id |-> insertId]

(* draftTrailsService.saveDraftTrail: a plain INSERT INTO draft_trails.    *)
(* referenceCode is UNIQUE in the schema, so the INSERT fails when a row   *)
(* with the code exists, soft-deleted rows included; the error is thrown   *)
(* on.  A user row inserted before stays.                                  *)
serviceSaveDraftTrail(d, referenceCode, userId, email, trailData, t) ==
  LET user == getOrCreateUser(d, userId, email)
      sameCode(row) == row.referenceCode = referenceCode
      insertId == Len(user.db.draft_trails) + 1
  IN  IF ~user.ok
      THEN [ok |-> FALSE, db |-> user.db, id |-> 0]
      ELSE IF firstRow(user.db.draft_trails, sameCode) > 0
      THEN [ok |-> FALSE, db |-> user.db, id |-> 0]
      ELSE [ok |-> TRUE, id |-> insertId,
            db |-> [user.db EXCEPT !.draft_trails =
                      Append(@, [id |-> insertId,
                                 referenceCode |-> referenceCode,
                                 userId |-> user.id,
                                 trailData |-> trailData,
                                 status |-> "draft", isPaid |-> FALSE,
                                 isDeleted |-> FALSE,
                                 createdAt |-> NOW(t),
                                 expiresAt |-> toTimestamp(t + TTL)])]]

(* draftTrailsService.getDraftTrail: the row with the code that is not     *)
(* soft-deleted, joined with its user; null when there is none             *)
serviceGetDraftTrail(d, referenceCode, t) ==
  LET live(row) == row.referenceCode = referenceCode /\ ~row.isDeleted
      i == firstRow(d.draft_trails, live)
      draft == d.draft_trails[i]
      owner(u) == u.id = draft.userId
      u == d.users[firstRow(d.users, owner)]
  IN  IF i = 0
      THEN [found |-> FALSE]
      ELSE [found |-> TRUE,
            draft |-> [id |-> draft.id,
                       referenceCode |-> draft.referenceCode,
                       userId |-> u.userId, email |-> u.email,
                       trailData |-> draft.trailData,
                       status |-> draft.status, isPaid |-> draft.isPaid,
                       createdAt |-> draft.createdAt,
                       expiresAt |-> draft.expiresAt,
                       daysRemaining |->
                         getDaysRemaining(fromTimestamp(draft.expiresAt), t)]]

(* draftTrailsService.deleteDraftTrail: UPDATE ... SET isDeleted = TRUE    *)
(* WHERE referenceCode = ?; affectedRows counts the rows the WHERE matches *)
serviceDeleteDraftTrail(d, referenceCode) ==
  LET sameCode(row) == row.referenceCode = referenceCode
  IN  [ok |-> firstRow(d.draft_trails, sameCode) > 0,
       db |-> [d EXCEPT !.draft_trails =
                 [i \in 1..Len(@) |->
                    IF @[i].referenceCode = referenceCode
                    THEN [@[i] EXCEPT !.isDeleted = TRUE] ELSE @[i]]]]

(* draftTrailsService.cleanupExpiredDrafts: UPDATE draft_trails SET status *)
(* = 'expired' WHERE expiresAt < NOW() AND status != 'expired'             *)
serviceCleanupExpiredDrafts(d, t) ==
  [d EXCEPT !.draft_trails =
     [i \in 1..Len(@) |->
        IF @[i].expiresAt < NOW(t) /\ @[i].status # "expired"
        THEN [@[i] EXCEPT !.status = "expired"] ELSE @[i]]]

(* utils/http.js: httpResponse *)
httpResponse(statusCode, body) == [statusCode |-> statusCode, body |-> body]

(* the event of a Lambda invocation: path parameter and parsed body *)
Event(referenceCode, userId, userEmail, trailData) ==
  [referenceCode |-> referenceCode, userId |-> userId,
   userEmail |-> userEmail, trailData |-> trailData]

(* handlers/draftTrails.js: POST /draft-trails *)
handlerSaveDraftTrail(event, d, t) ==
  LET result == serviceSaveDraftTrail(d, event.referenceCode, event.userId,
                                      event.userEmail, event.trailData, t)
  IN  IF Falsy(event.referenceCode) \/ Falsy(event.userId)
         \/ Falsy(event.userEmail) \/ Falsy(event.trailData)
      THEN [db |-> d,
            response |-> httpResponse(400,
              [error |-> "Missing required fields: referenceCode, userId, userEmail, trailData"])]
      ELSE IF ~result.ok
      THEN [db |-> result.db,
            response |-> httpResponse(500,
              [error |-> "Failed to save draft trail"])]
      ELSE [db |-> result.db,
            response |-> httpResponse(201,
              [success |-> TRUE,
               message |-> "Draft trail saved successfully",
               data |-> [id |-> result.id,
                         referenceCode |-> event.referenceCode,
                         userId |-> event.userId,
                         email |-> event.userEmail,
                         daysRemaining |-> 7]])]

(* handlers/draftTrails.js: GET /draft-trails/{referenceCode} *)
handlerGetDraftTrail(event, d, t) ==
  LET got == serviceGetDraftTrail(d, event.referenceCode, t)
  IN  IF Falsy(event.referenceCode)
      THEN httpResponse(400, [error |-> "Missing referenceCode parameter"])
      ELSE IF ~got.found
      THEN httpResponse(404, [error |-> "Draft trail not found"])
      ELSE httpResponse(200, [success |-> TRUE, data |-> got.draft])

(* handlers/draftTrails.js: DELETE /draft-trails/{referenceCode} *)
handlerDeleteDraftTrail(event, d) ==
  LET success == serviceDeleteDraftTrail(d, event.referenceCode)
  IN  IF Falsy(event.referenceCode)
      THEN [db |-> d,
            response |-> httpResponse(400,
              [error |-> "Missing referenceCode parameter"])]
      ELSE IF ~success.ok
      THEN [db |-> success.db,
            response |-> httpResponse(404, [error |-> "Draft trail not found"])]
      ELSE [db |-> success.db,
            response |-> httpResponse(200,
              [success |-> TRUE,
               message |-> "Draft trail deleted successfully"])]

DbUsers == {[userId |-> "u1", email |-> "a@x.com"],
            [userId |-> "u2", email |-> "b@x.com"]}

SaveEvents ==
  {Event(c, u.userId, u.email, p) : c \in Codes, u \in DbUsers, p \in Payloads}
  \cup {Event("REF-1", "u1", "a@x.com", Undefined)}

CodeEvents == {Event(c, Undefined, Undefined, Undefined) : c \in Codes}

LambdaSave ==
  /\ \E event \in SaveEvents :
        LET out == handlerSaveDraftTrail(event, db, now)
        IN  /\ db' = out.db
            /\ lambda' = [op |-> "saveDraftTrail", event |-> event,
                          at |-> now, response |-> out.response]
  /\ UNCHANGED <<file, now, ticks, req, res, fault, inflight, served, tok>>

LambdaGet ==
  /\ \E event \in CodeEvents :
        lambda' = [op |-> "getDraftTrail", event |-> event, at |-> now,
                   response |-> handlerGetDraftTrail(event, db, now)]
  /\ UNCHANGED <<file, now, ticks, req, res, fault, inflight, served, tok, db>>

LambdaDelete ==
  /\ \E event \in CodeEvents :
        LET out == handlerDeleteDraftTrail(event, db)
        IN  /\ db' = out.db
            /\ lambda' = [op |-> "deleteDraftTrail", event |-> event,
                          at |-> now, response |-> out.response]
  /\ UNCHANGED <<file, now, ticks, req, res, fault, inflight, served, tok>>

(* handlers/cleanup.js: the scheduled cleanup *)
LambdaCleanup ==
  /\ db' = serviceCleanupExpiredDrafts(db, now)
  /\ lambda' = [op |-> "cleanup", event |-> Event(Undefined, Undefined,
                                                  Undefined, Undefined),
                at |-> now, response |-> httpResponse(200, [success |-> TRUE])]
  /\ UNCHANGED <<file, now, ticks, req, res, fault, inflight, served, tok>>

NextDb == LambdaSave \/ LambdaGet \/ LambdaDelete \/ LambdaCleanup \/ Tick

SpecDb == Init /\ [][NextDb]_vars

----------------------------------------------------------------------------
(* Vocabulary of the properties *)

(* the step just taken served a request with handler h *)
Served(h) == req' # NoRequest /\ res'.handler = h

HasCode(f, c) == \E i \in 1..Len(f) : f[i].referenceCode = c

(* the records a 200 response of a read endpoint carries *)
Returned(response) ==
  IF response.status # 200 THEN <<>>
  ELSE IF response.handler = "getByCode" THEN <<response.body>>
  ELSE IF response.handler \in {"listAll", "myDrafts", "userDrafts"}
  THEN response.body.drafts
  ELSE <<>>

(* the body of the request passes the handler's validation *)
ValidBody(r, h) ==
  /\ h = "updateStatus" => ~Falsy(r.body.status)
  /\ h = "updatePaid" => r.body.isPaid # Undefined
  /\ h = "create" => /\ ~Falsy(r.body.referenceCode)
                     /\ ~Falsy(r.body.userId)
                     /\ ~Falsy(r.body.userEmail)
                     /\ ~Falsy(r.body.trailData)

----------------------------------------------------------------------------
(* C1: for every stored draft D and every authenticated identity whose     *)
(* token email differs from D.userEmail, a well-formed PUT status, PUT     *)
(* paid or DELETE on D's reference code answers 403 and leaves the whole   *)
(* stored collection unchanged.                                            *)
C1_NonOwnerForbidden ==
  [][\A i \in 1..Len(file) : \A h \in {"updateStatus", "updatePaid", "delete"} :
       ( /\ Served(h)
         /\ ParamOf(req', 1) = file[i].referenceCode
         /\ res'.status # 401
         /\ req'.authorization.token.email # file[i].userEmail
         /\ ValidBody(req', h) )
       => (res'.status = 403 /\ file' = file)]_vars

C1_Witness ==
  /\ res.handler = "delete"
  /\ res.status = 403
  /\ Len(file) = 2
  /\ HasCode(file, ParamOf(req, 1))

(* C2: round trip: after a create that answers 201, the immediately        *)
(* following anonymous GET /<referenceCode> answers 200 with the stored    *)
(* record (daysRemaining apart), for every reference code a client         *)
(* chooses.  A record whose createdAt is the present millisecond is one    *)
(* that a create has just stored.                                          *)
C2_RoundTrip ==
  [][\A i \in 1..Len(file) :
       ( /\ req' # NoRequest
         /\ req'.method = "GET"
         /\ req'.path = <<file[i].referenceCode>>
         /\ req'.authorization = NoHeader
         /\ file[i].createdAt = now
         /\ file[i].status = "draft" )
       => /\ res'.status = 200
          /\ \A k \in {"referenceCode", "userId", "userEmail", "trailData",
                       "status", "createdAt", "expiresAt"} :
                res'.body[k] = file[i][k]]_vars

(* C3: upsert: a create whose reference code is already stored answers     *)
(* 201, keeps the number of records, leaves every other record as it was   *)
(* and puts the newly supplied record under that code.                     *)
C3_Upsert ==
  [][\A i \in 1..Len(file) :
       ( /\ Served("create")
         /\ ValidBody(req', "create")
         /\ req'.body.referenceCode = file[i].referenceCode )
       => /\ res'.status = 201
          /\ Len(file') = Len(file)
          /\ \A j \in 1..Len(file) : j # i => file'[j] = file[j]
          /\ file'[i].referenceCode = req'.body.referenceCode
          /\ file'[i].userId = req'.body.userId
          /\ file'[i].userEmail = req'.body.userEmail
          /\ file'[i].trailData = req'.body.trailData
          /\ file'[i].status = "draft"
          /\ file'[i].createdAt = now]_vars

(* a record that stands before an older one has been replaced in place *)
C3_Witness ==
  /\ res.handler = "create"
  /\ res.status = 201
  /\ Len(file) = 2
  /\ file[1].referenceCode = req.body.referenceCode
  /\ file[1].createdAt > file[2].createdAt

(* C4: no two stored records have the same referenceCode *)
C4_UniqueCodes ==
  \A i, j \in 1..Len(file) :
    i # j => file[i].referenceCode # file[j].referenceCode

C4_Witness ==
  /\ Len(file) = 2
  /\ res.handler = "create"
  /\ res.status = 201
  /\ file[2].createdAt < now

(* C5: no read endpoint returns, in a 200 response, a record whose         *)
(* expiresAt has passed when the response is built.                        *)
C5_NoExpiredReturned ==
  \A k \in 1..Len(Returned(res)) : ~(now > Returned(res)[k].expiresAt)

(* a listing answered after the first records have run out *)
C5_Witness ==
  /\ res.handler = "listAll"
  /\ res.status = 200
  /\ now > T0 + TTL
  /\ Len(res.body.drafts) = 1

C7_GoneThenNotFound ==
  [][Served("getByCode") =>
       LET c == ParamOf(req', 1)
           notThis(d) == d.referenceCode # c
       IN  /\ \A i \in 1..Len(file) :
                 (file[i].referenceCode = c /\ now > file[i].expiresAt)
                 => /\ res'.status = 410
                    /\ file' = SelectSeq(file, notThis)
                    /\ Len(file') = Len(file) - 1
                    /\ ~HasCode(file', c)
           /\ ~HasCode(file, c) => (res'.status = 404 /\ file' = file)]_vars

(* the expired record is gone and the other record is still stored *)
C7_Witness ==
  /\ res.handler = "getByCode"
  /\ res.status = 410
  /\ Len(file) = 1
  /\ ~HasCode(file, ParamOf(req, 1))

(* C8: the owner (userId and userEmail) stored under a reference code      *)
(* never changes while the record is stored, whatever request is served;   *)
(* a create with an existing code and another email does not hand the      *)
(* record over.                                                            *)
C8_OwnerNeverChanges ==
  [][\A i \in 1..Len(file) : \A j \in 1..Len(file') :
       file'[j].referenceCode = file[i].referenceCode
       => /\ file'[j].userId = file[i].userId
          /\ file'[j].userEmail = file[i].userEmail]_vars

(* C9 as stated: the expiresAt stored under a reference code never changes *)
(* while the record is stored, a repeated create with the same code        *)
(* included.                                                               *)
C9_ExpiresAtNeverChanges ==
  [][\A i \in 1..Len(file) : \A j \in 1..Len(file') :
       file'[j].referenceCode = file[i].referenceCode
       => file'[j].expiresAt = file[i].expiresAt]_vars

(* C9 amended: the expiresAt stored under a reference code changes only by *)
(* a successful create with that code, which replaces the record and sets  *)
(* expiresAt to the time of that create plus 7 days; status updates, paid  *)
(* updates and every other request leave it as it is.                      *)
C9_ExpiresAtChangesOnlyOnCreate ==
  [][\A i \in 1..Len(file) : \A j \in 1..Len(file') :
       file'[j].referenceCode = file[i].referenceCode
       => \/ file'[j].expiresAt = file[i].expiresAt
          \/ /\ Served("create")
             /\ res'.status = 201
             /\ req'.body.referenceCode = file[i].referenceCode
             /\ file'[j].expiresAt = now + 7 * DAY]_vars

(* a status update accepted some time after the record was created *)
C9_Witness ==
  /\ res.handler = "updateStatus"
  /\ res.status = 200
  /\ \E i \in 1..Len(file) :
        /\ file[i].referenceCode = ParamOf(req, 1)
        /\ file[i].status = req.body.status
        /\ file[i].createdAt < now
        /\ file[i].expiresAt = file[i].createdAt + 7 * DAY

(* C10: router precedence: GET /my-drafts, GET /user and GET /user/:userId *)
(* always reach their own handlers, never the get-by-reference-code        *)
(* handler, whatever the store holds; PUT /:referenceCode/status and       *)
(* PUT /:referenceCode/paid reach their handlers, which are registered     *)
(* before every single-parameter route.                                    *)
C10_RouterPrecedence ==
  /\ (req.method = "GET" /\ req.path = <<"my-drafts">>)
     => res.handler = "myDrafts"
  /\ (req.method = "GET" /\ req.path = <<"user">>)
     => res.handler = "userHint"
  /\ (req.method = "GET" /\ Len(req.path) = 2 /\ req.path[1] = "user")
     => res.handler = "userDrafts"
  /\ (req.method = "PUT" /\ Len(req.path) = 2 /\ req.path[2] = "status")
     => res.handler = "updateStatus"
  /\ (req.method = "PUT" /\ Len(req.path) = 2 /\ req.path[2] = "paid")
     => res.handler = "updatePaid"
  /\ \A i, j \in 1..Len(Routes) :
        ( /\ Routes[i].handler \in {"updateStatus", "updatePaid"}
          /\ Len(Routes[j].pattern) = 1
          /\ Routes[j].pattern[1].param )
        => i < j

(* GET /my-drafts is served while a record with that very code is stored *)
C10_Witness ==
  /\ req.method = "GET"
  /\ req.path = <<"my-drafts">>
  /\ res.handler = "myDrafts"
  /\ HasCode(file, "my-drafts")

C21_SelfSignedTokenAccepted ==
  [][\A h \in {"myDrafts", "updateStatus", "updatePaid", "delete"} :
       (Served(h) /\ req'.authorization = HeaderSelfSigned)
       => res'.status # 401]_vars

(* the request is authenticated as the owner of record d *)
ByOwner(r, d) == d.userEmail = r.authorization.token.email

(* C22: PUT /:referenceCode/status by the owner with a non-empty status    *)
(* answers 404 when no record has the code and otherwise sets the record's *)
(* status to that value whatever the status was, leaving every other field *)
(* of the record and every other record unchanged.                         *)
C22_StatusOverwrite ==
  [][( /\ Served("updateStatus")
       /\ res'.status # 401
       /\ ValidBody(req', "updateStatus") )
     => LET c == ParamOf(req', 1)
        IN  /\ ~HasCode(file, c) => (res'.status = 404 /\ file' = file)
            /\ \A i \in 1..Len(file) :
                  (file[i].referenceCode = c /\ ByOwner(req', file[i]))
                  => /\ res'.status = 200
                     /\ Len(file') = Len(file)
                     /\ file'[i] = [file[i] EXCEPT !.status = req'.body.status]
                     /\ \A j \in 1..Len(file) :
                           j # i => file'[j] = file[j]]_vars

(* a record that was paid and completed is set back to 'draft' *)
C22_Witness ==
  /\ res.handler = "updateStatus"
  /\ res.status = 200
  /\ req.body.status = "draft"
  /\ \E i \in 1..Len(file) :
        /\ file[i].referenceCode = ParamOf(req, 1)
        /\ file[i].status = "draft"
        /\ file[i].isPaid = "true"

(* C23: PUT /:referenceCode/paid by the owner stores the supplied isPaid   *)
(* and sets paidAt to the current time when isPaid is true and to null     *)
(* when it is false, leaving every other field and every other record      *)
(* unchanged; in every stored record that has had a paid update, paidAt is *)
(* a time exactly when isPaid is true.                                     *)
C23_PaidUpdate ==
  [][/\ ( /\ Served("updatePaid")
          /\ res'.status # 401
          /\ ValidBody(req', "updatePaid") )
        => \A i \in 1..Len(file) :
              (file[i].referenceCode = ParamOf(req', 1)
               /\ ByOwner(req', file[i]))
              => /\ res'.status = 200
                 /\ Len(file') = Len(file)
                 /\ file'[i] =
                      [file[i] EXCEPT
                         !.isPaid = req'.body.isPaid,
                         !.paidAt = IF req'.body.isPaid = "true"
                                    THEN PaidAtMs(now) ELSE PaidAtNull]
                 /\ \A j \in 1..Len(file) : j # i => file'[j] = file[j]
     /\ \A j \in 1..Len(file') :
           file'[j].isPaid # Undefined
           => (file'[j].paidAt.kind = "number" <=> file'[j].isPaid = "true")
           ]_vars

(* a paid record has been set to unpaid *)
C23_Witness ==
  /\ res.handler = "updatePaid"
  /\ res.status = 200
  /\ req.body.isPaid = "false"
  /\ \E i \in 1..Len(file) :
        /\ file[i].referenceCode = ParamOf(req, 1)
        /\ file[i].isPaid = "false"
        /\ file[i].paidAt = PaidAtNull
        /\ file[i].status = "payment_completed"

(* C24: DELETE /:referenceCode by the owner answers 200 and removes        *)
(* exactly the record with that code; once the code is not stored (as      *)
(* after that delete), a GET of the code answers 404 and a repeated delete *)
(* answers 404 and leaves the store as it is.                              *)
C24_DeleteOnce ==
  [][/\ (Served("delete") /\ res'.status # 401)
        => LET c == ParamOf(req', 1)
               notThis(d) == d.referenceCode # c
           IN  /\ \A i \in 1..Len(file) :
                     (file[i].referenceCode = c /\ ByOwner(req', file[i]))
                     => /\ res'.status = 200
                        /\ file' = SelectSeq(file, notThis)
                        /\ Len(file') = Len(file) - 1
                        /\ ~HasCode(file', c)
               /\ ~HasCode(file, c) => (res'.status = 404 /\ file' = file)
     /\ ( /\ req' # NoRequest
          /\ req'.method = "GET"
          /\ Len(req'.path) = 1
          /\ req'.path[1] \in Codes
          /\ ~HasCode(file, req'.path[1]) )
        => res'.status = 404]_vars

(* C25: GET / leaves in the store exactly the records that are not expired *)
(* at the time of the request (isExpired, the test GET /:referenceCode     *)
(* applies), each unchanged and in its place, and returns exactly those    *)
(* records, each with daysRemaining recomputed for that time.              *)
C25_ListSweepsExpired ==
  [][Served("listAll")
     => LET alive(d) == ~isExpired(d.expiresAt, now)
        IN  /\ file' = SelectSeq(file, alive)
            /\ res'.status = 200
            /\ res'.body.total = Len(file')
            /\ Len(res'.body.drafts) = Len(file')
            /\ \A i \in 1..Len(file') :
                  /\ \A k \in DOMAIN file'[i] \ {"daysRemaining"} :
                        res'.body.drafts[i][k] = file'[i][k]
                  /\ res'.body.drafts[i].daysRemaining
                       = getDaysRemaining(file'[i].expiresAt, now)]_vars

(* C26: GET /my-drafts with an accepted token returns exactly the stored   *)
(* records that are not expired (isExpired) and whose userEmail is the     *)
(* token's email, in store order.                                          *)
C26_MyDraftsExactlyMine ==
  [][(Served("myDrafts") /\ res'.status # 401)
     => LET email == req'.authorization.token.email
            mine(d) == d.userEmail = email /\ ~isExpired(d.expiresAt, now)
            expected == SelectSeq(file, mine)
        IN  /\ res'.status = 200
            /\ Len(res'.body.drafts) = Len(expected)
            /\ \A i \in 1..Len(expected) :
                  /\ res'.body.drafts[i].referenceCode = expected[i].referenceCode
                  /\ res'.body.drafts[i].userEmail = email
                  /\ res'.body.drafts[i].trailData = expected[i].trailData]_vars

(* the store f with the record of code c given to another owner *)
withOwner(f, c, o) ==
  [i \in 1..Len(f) |->
     IF f[i].referenceCode = c
     THEN [f[i] EXCEPT !.userEmail = o.userEmail, !.userId = o.userId,
                       !.trailData = o.trailData]
     ELSE f[i]]

(* owners a record could have instead *)
OtherOwners ==
  [userEmail : {"a@x.com", "b@x.com", "c@x.com"},
   userId : {"u1", "u2", "u3"},
   trailData : {"t1", "t2"}]

(* C27: a 403 response of PUT status, PUT paid or DELETE does not depend   *)
(* on the target record: on every store that differs from the actual one   *)
(* only in who owns the record and what it holds (the requester still not  *)
(* being the owner), the same request gets the identical response, and the *)
(* store is left as it is.                                                 *)
C27_ForbiddenTellsNothing ==
  [][\A h \in {"updateStatus", "updatePaid", "delete"} :
       (Served(h) /\ res'.status = 403)
       => /\ file' = file
          /\ \A o \in OtherOwners :
                o.userEmail # req'.authorization.token.email
                => Serve(req', withOwner(file, ParamOf(req', 1), o), now).res
                     = res']_vars

(* a non-owner's delete of a stored record has been refused *)
C27_Witness ==
  /\ res.handler = "delete"
  /\ res.status = 403
  /\ \E i \in 1..Len(file) :
        /\ file[i].referenceCode = ParamOf(req, 1)
        /\ file[i].userEmail # req.authorization.token.email

(* C28: a request without an Authorization header is answered only with   *)
(* records whose reference code the request itself supplied in its path.   *)
C28_CodeIsTheOnlyCapability ==
  (req # NoRequest /\ req.authorization = NoHeader)
  => \A i \in 1..Len(Returned(res)) :
        \E k \in 1..Len(req.path) :
           Returned(res)[i].referenceCode = req.path[k]

(* C31: PUT status and PUT paid for a stored record whose expiresAt has    *)
(* passed do not answer 200 and leave the record as it is (or remove it).  *)
C31_ExpiredNotUpdated ==
  [][\A h \in {"updateStatus", "updatePaid"} :
       Served(h)
       => \A i \in 1..Len(file) :
             ( /\ file[i].referenceCode = ParamOf(req', 1)
               /\ isExpired(file[i].expiresAt, now) )
             => /\ res'.status # 200
                /\ \A j \in 1..Len(file') :
                      file'[j].referenceCode = file[i].referenceCode
                      => file'[j] = file[i]]_vars

(* C32: after any request that reads or writes the store (create, get,    *)
(* list, status update, paid update or delete, past authentication and     *)
(* body validation) no record whose expiresAt has passed is left in the    *)
(* collection.                                                             *)
C32_PurgedOnAnyTouch ==
  [][( /\ req' # NoRequest
       /\ res'.handler \in {"create", "getByCode", "listAll", "myDrafts",
                            "userDrafts", "updateStatus", "updatePaid",
                            "delete"}
       /\ res'.status \notin {400, 401} )
     => \A j \in 1..Len(file') : ~isExpired(file'[j].expiresAt, now)]_vars

(* C33: at every instant, for every stored record, GET /:referenceCode for *)
(* its code answers 200 exactly when a sweep (cleanupExpiredDrafts) run at *)
(* the same instant keeps the record.                                      *)
C33_GetAndSweepAgree ==
  \A i \in 1..Len(file) :
     LET r == Request("GET", <<file[i].referenceCode>>, NoHeader, EmptyBody)
         swept == cleanupExpiredDrafts(file, now)
     IN  (getByCode(r, file, now).res.status = 200)
         <=> (\E j \in 1..Len(swept) : swept[j] = file[i])

(* C34: a paid update with isPaid = true that answers 200 for a record     *)
(* that is already paid leaves the record's paidAt as it was.              *)
C34_PaidAtKeptWhenAlreadyPaid ==
  [][( /\ Served("updatePaid")
       /\ res'.status = 200
       /\ req'.body.isPaid = "true" )
     => \A i \in 1..Len(file) :
           ( /\ file[i].referenceCode = ParamOf(req', 1)
             /\ file[i].isPaid = "true" )
           => \E j \in 1..Len(file') :
                 /\ file'[j].referenceCode = file[i].referenceCode
                 /\ file'[j].paidAt = file[i].paidAt]_vars

(* n is max(0, ceil((expiresAt - t) / one day)) and is in the range the   *)
(* seven-day lifetime allows                                               *)
IsDaysRemaining(n, d, t) ==
  /\ n >= 0
  /\ n * DAY >= d.expiresAt - t
  /\ n > 0 => (n - 1) * DAY < d.expiresAt - t
  /\ t = d.createdAt => n = 7
  /\ (d.createdAt <= t /\ t < d.expiresAt) => n \in 1..7

(* times at which a stored record is looked at: each whole day of its      *)
(* lifetime, one millisecond before and one after                          *)
SampleOffsets ==
  {k * DAY + e : k \in 0..7, e \in {-1, 0, 1}} \ {-1}

(* C36: every record returned by GET /:referenceCode, GET /, GET           *)
(* /my-drafts and GET /user/:userId carries daysRemaining = max(0,         *)
(* ceil((expiresAt - now) / one day)) for the time of the request, not the *)
(* stored value: 7 at creation, 1..7 while now < expiresAt, never          *)
(* negative.  The same holds of getDaysRemaining for every stored record   *)
(* at every sampled time of its lifetime.                                  *)
C36_DaysRemainingDerived ==
  /\ req # NoRequest
     => \A i \in 1..Len(Returned(res)) :
           IsDaysRemaining(Returned(res)[i].daysRemaining, Returned(res)[i],
                           now)
  /\ \A i \in 1..Len(file) : \A o \in SampleOffsets :
        LET t == file[i].createdAt + o
        IN  IsDaysRemaining(getDaysRemaining(file[i].expiresAt, t), file[i], t)

(* a record stored with daysRemaining 7 has been returned at its expiresAt *)
(* with daysRemaining 0                                                    *)
C36_Witness ==
  /\ res.handler = "getByCode"
  /\ res.status = 200
  /\ res.body.daysRemaining = 0
  /\ now > res.body.createdAt
  /\ \E i \in 1..Len(file) :
        /\ file[i].referenceCode = res.body.referenceCode
        /\ file[i].daysRemaining = 7

(* C37: PUT status, PUT paid and DELETE check in the order authentication *)
(* (401), body (400), existence (404), ownership (403): each request gets  *)
(* the status of the first check it fails, and a request refused with one  *)
(* of these leaves the store as it is.                                     *)
C37_CheckOrder ==
  [][\A h \in {"updateStatus", "updatePaid", "delete"} :
       Served(h)
       => LET authOk == authMiddleware(req'.authorization, now).ok
              valid == ValidBody(req', h)
              exists == HasCode(file, ParamOf(req', 1))
              owner == \E i \in 1..Len(file) :
                          /\ file[i].referenceCode = ParamOf(req', 1)
                          /\ ByOwner(req', file[i])
          IN  /\ ~authOk => res'.status = 401
              /\ (authOk /\ ~valid) => res'.status = 400
              /\ (authOk /\ valid /\ ~exists) => res'.status = 404
              /\ (authOk /\ valid /\ exists /\ ~owner) => res'.status = 403
              /\ res'.status \in {400, 401, 403, 404} => file' = file]_vars

(* a status update without a status, for a record of another user, has     *)
(* been answered 400                                                       *)
C37_Witness ==
  /\ res.handler = "updateStatus"
  /\ res.status = 400
  /\ \E i \in 1..Len(file) :
        /\ file[i].referenceCode = ParamOf(req, 1)
        /\ file[i].userEmail # req.authorization.token.email

(* the userId of a request body as a string of characters *)
charsOf(userId) ==
  IF userId = "u1" THEN <<"u", "1">>
  ELSE IF userId = "u2" THEN <<"u", "2">>
  ELSE <<>>

(* C20: every create that answers 201 carries in its response a            *)
(* self-signed token for the creator: a token that verifyToken accepts and *)
(* resolves to the userId of the request.                                  *)
C20_CreateReturnsToken ==
  (res.handler = "create" /\ res.status = 201)
  => /\ "token" \in DOMAIN res.body
     /\ verifyToken(res.body.token).valid
     /\ verifyToken(res.body.token).userId = charsOf(req.body.userId)

----------------------------------------------------------------------------
(* Claims about a failing data file (SpecIO) *)

(* C12: no endpoint reports success when the write of the collection       *)
(* failed: while writeFileSync throws, POST create, PUT status, PUT paid   *)
(* and DELETE never answer 200 or 201, and a request that got as far as    *)
(* the write (it was not turned down with a 4xx) answers 5xx.              *)
C12_NoSuccessOnFailedWrite ==
  [][\A h \in {"create", "updateStatus", "updatePaid", "delete"} :
       (fault = "write" /\ Served(h))
       => /\ res'.status \notin {200, 201}
          /\ res'.status \notin {400, 401, 403, 404} => res'.status >= 500]_vars

(* the code a mutating request is aimed at *)
TargetOf(r) ==
  IF r.method = "POST" THEN r.body.referenceCode ELSE ParamOf(r, 1)

(* C13: a failed read of the collection never causes stored records to be  *)
(* lost: while readDraftTrails fails, a create, status update or delete    *)
(* leaves every stored record other than its target in the file, and a     *)
(* sweep (run by the three listings) leaves every unexpired record.        *)
C13_FailedReadLosesNothing ==
  [][fault = "read" =>
       /\ \A h \in {"create", "updateStatus", "delete"} :
             Served(h) =>
               \A i \in 1..Len(file) :
                  file[i].referenceCode # TargetOf(req')
                  => \E j \in 1..Len(file') : file'[j] = file[i]
       /\ \A h \in {"listAll", "myDrafts", "userDrafts"} :
             Served(h) =>
               \A i \in 1..Len(file) :
                  file[i].expiresAt > now
                  => \E j \in 1..Len(file') : file'[j] = file[i]]_vars

----------------------------------------------------------------------------
(* Claims about requests in flight together (SpecConc) *)

(* the entry is a status or paid update that answered 200 *)
UpdateDone(e) ==
  e.res.handler \in {"updateStatus", "updatePaid"} /\ e.res.status = 200

(* the stored record d shows the change that the update of entry e made *)
Carries(d, e) ==
  IF e.res.handler = "updateStatus"
  THEN d.status = e.req.body.status
  ELSE d.isPaid = e.req.body.isPaid /\ d.paidAt = e.res.body.paidAt

JustRun == served'[Len(served')]

(* C29: when PUT status, PUT paid or DELETE is run, whatever requests are  *)
(* waiting and whatever ran just before (a re-create of the code by        *)
(* another user included), every stored record whose userEmail is not the  *)
(* requester's email is in the store afterwards exactly as it was: the     *)
(* mutation is applied only to a record the requester owns at that time.   *)
C29_MutationOnlyOnOwnRecord ==
  [][( /\ served' # served
       /\ JustRun.res.handler \in {"updateStatus", "updatePaid", "delete"}
       /\ JustRun.res.status # 401 )
     => /\ Len(file') <= Len(file)
        /\ \A i \in 1..Len(file) :
              file[i].userEmail # JustRun.req.authorization.token.email
              => \E j \in 1..Len(file') : file'[j] = file[i]]_vars

(* a re-create of the code by another user ran while the first owner's     *)
(* status update was waiting; the update was then refused and the record   *)
(* is as the re-create left it                                             *)
C29_Witness ==
  /\ Len(served) = 2
  /\ served[2].req \in served[1].others
  /\ served[1].res.handler = "create"
  /\ served[1].res.status = 201
  /\ served[1].req.body.userEmail = "b@x.com"
  /\ served[2].res.handler = "updateStatus"
  /\ served[2].res.status = 403
  /\ served[2].req.authorization.token.email = "a@x.com"
  /\ \E i \in 1..Len(file) :
        file[i].userEmail = "b@x.com" /\ file[i].status = "draft"

(* C30: a sweep (here the one GET / performs) leaves in the store, as it   *)
(* was, every record that is not expired at that time (isExpired), the     *)
(* records and changes written by requests that were in flight with it     *)
(* included.                                                               *)
C30_SweepKeepsUnexpired ==
  [][( /\ served' # served
       /\ JustRun.res.handler = "listAll" )
     => \A i \in 1..Len(file) :
           ~isExpired(file[i].expiresAt, now)
           => \E j \in 1..Len(file') : file'[j] = file[i]]_vars

(* C38: after a POST create that answers 201, the store holds under the    *)
(* request's reference code one record, and that record has status         *)
(* 'draft', createdAt and expiresAt of this request, the request's owner   *)
(* and no isPaid and paidAt, whatever the record under that code was       *)
(* before.                                                                 *)
C38_CreateResetsRecord ==
  [][( /\ served' # served
       /\ JustRun.res.handler = "create"
       /\ JustRun.res.status = 201 )
     => LET b == JustRun.req.body
        IN  /\ HasCode(file', b.referenceCode)
            /\ \A j \in 1..Len(file') :
                  file'[j].referenceCode = b.referenceCode
                  => /\ file'[j].status = "draft"
                     /\ file'[j].createdAt = now
                     /\ file'[j].expiresAt = now + TTL
                     /\ file'[j].userEmail = b.userEmail
                     /\ file'[j].isPaid = Undefined
                     /\ file'[j].paidAt = PaidAtUndefined]_vars

(* a create has replaced a record that the request run just before it had  *)
(* marked as paid                                                          *)
C38_Witness ==
  /\ Len(served) = 2
  /\ served[1].res.handler = "updatePaid"
  /\ served[1].res.status = 200
  /\ served[1].req.body.isPaid = "true"
  /\ served[2].res.handler = "create"
  /\ served[2].res.status = 201
  /\ \E i \in 1..Len(file) :
        /\ file[i].referenceCode = ParamOf(served[1].req, 1)
        /\ file[i].isPaid = Undefined

----------------------------------------------------------------------------
(* Claims about the token functions (SpecToken) *)

(* C15: for every token issued by generateToken and every change of one    *)
(* character of its signature to another character, verifyToken rejects    *)
(* the changed token with 'Token signature invalid', never with the format *)
(* reason.                                                                 *)
C15_ChangedSignatureIsMismatch ==
  tok.op = "verifyChanged"
  => (~tok.result.valid /\ tok.result.error = "Token signature invalid")

(* C16: extractUserFromToken rejects every token that does not have        *)
(* exactly three dot-separated segments with 'Invalid token format - not a *)
(* JWT', whatever its second segment holds.                                *)
C16_NotThreeSegments ==
  (tok.op = "extractUserFromToken" /\ tok.token.segments # 3)
  => (~tok.result.valid
      /\ tok.result.error = "Invalid token format - not a JWT")

(* two segments whose claims would have been accepted *)
C16_Witness ==
  /\ tok.op = "extractUserFromToken"
  /\ tok.token.segments = 2
  /\ tok.token.payloadOk
  /\ tok.token.sub = "u1"
  /\ tok.token.email = "a@x.com"
  /\ tok.token.hasIat
  /\ tok.token.hasExp
  /\ tok.token.exp = FarExp
  /\ tok.result.error = "Invalid token format - not a JWT"

(* C17: extractUserFromToken rejects with 'Token has expired' every        *)
(* three-segment token whose claims (iat among them) carry an exp in the   *)
(* past, 0 included; an exp of the current second or later is not rejected *)
(* for expiry.                                                             *)
C17_PastExpRejected ==
  ( /\ tok.op = "extractUserFromToken"
    /\ tok.token.segments = 3
    /\ tok.token.payloadOk
    /\ tok.token.hasIat
    /\ tok.token.hasExp )
  => /\ tok.token.exp < tok.at \div 1000
        => (~tok.result.valid /\ tok.result.error = "Token has expired")
     /\ tok.token.exp >= tok.at \div 1000
        => tok.result.error # "Token has expired"

(* C18: the exp claim is optional: extractUserFromToken accepts, with      *)
(* userId = sub and email = email, every three-segment token whose claims  *)
(* decode to an object with non-empty sub and email and no exp in the      *)
(* past, whether or not exp and iat are present; without sub or email the  *)
(* token is rejected with 'Missing uid or email in token'.                 *)
C18_ExpOptional ==
  ( /\ tok.op = "extractUserFromToken"
    /\ tok.token.segments = 3
    /\ tok.token.payloadOk
    /\ ~(tok.token.hasExp /\ tok.token.exp < tok.at \div 1000) )
  => IF Falsy(tok.token.sub) \/ Falsy(tok.token.email)
     THEN ~tok.result.valid
          /\ tok.result.error = "Missing uid or email in token"
     ELSE /\ tok.result.valid
          /\ tok.result.userId = tok.token.sub
          /\ tok.result.email = tok.token.email

(* C19: round trip: for every non-empty userId, ':' included,              *)
(* verifyToken(generateToken(userId)) is valid and returns that userId and *)
(* the timestamp of issue.                                                 *)
C19_SelfSignedRoundTrip ==
  tok.op = "verifyToken"
  => /\ tok.result.valid
     /\ tok.result.userId = tok.userId
     /\ tok.result.timestamp = tok.issuedAt

(* the fields of the decoded text of a token *)
fieldsOf(token) == split(bytesToString(base64Decode(token)), ":")

(* exactly three fields, none of them empty *)
ThreeFields(token) ==
  /\ Len(fieldsOf(token)) = 3
  /\ \A k \in 1..3 : fieldsOf(token)[k] # <<>>

(* C35: verifyToken refuses every token whose decoded text does not split  *)
(* on ':' into exactly three non-empty fields, and does so with the reason *)
(* 'Invalid token format'.                                                 *)
C35_MalformedIsFormatError ==
  ( /\ tok.op \in {"verifyToken", "verifyChanged", "verifyForeign"}
    /\ ~ThreeFields(tok.token) )
  => (~tok.result.valid /\ tok.result.error = "Invalid token format")

----------------------------------------------------------------------------
(* Claims about the relational variant (SpecDb) *)

(* the live row of the code the last invocation named *)
LiveRows ==
  {i \in 1..Len(db.draft_trails) :
     /\ db.draft_trails[i].referenceCode = lambda.event.referenceCode
     /\ ~db.draft_trails[i].isDeleted}

(* C39: the Lambda GET of a code whose row has an expiresAt that has       *)
(* passed at the time of the call does not answer 200 with the record; it  *)
(* answers Gone (410), which is not the 404 of a missing code.             *)
C39_DbGetExpiredIsGone ==
  ( /\ lambda.op = "getDraftTrail"
    /\ \E i \in LiveRows :
          fromTimestamp(db.draft_trails[i].expiresAt) < lambda.at )
  => lambda.response.statusCode = 410

(* C40: the Lambda POST with all required fields answers 201 and leaves    *)
(* exactly one live row with the reference code, owned by the user of the  *)
(* request and created by this request, also when a row with the code      *)
(* existed before.                                                         *)
C40_DbCreateUpserts ==
  ( /\ lambda.op = "saveDraftTrail"
    /\ ~Falsy(lambda.event.trailData) )
  => /\ lambda.response.statusCode = 201
     /\ Cardinality(LiveRows) = 1
     /\ \A i \in LiveRows :
           /\ db.draft_trails[i].createdAt = NOW(lambda.at)
           /\ \E k \in 1..Len(db.users) :
                 /\ db.users[k].id = db.draft_trails[i].userId
                 /\ db.users[k].userId = lambda.event.userId

====
